---- MODULE Spec2Model ----
(***************************************************************************)
(* The indexing engine of indexd (src/blockchain.js): Blockchain.connect,  *)
(* connect2ndOrder, disconnect and the queries over the six indices.       *)
(*                                                                         *)
(* Transaction ids and script ids are naturals (their order is the byte    *)
(* order of the hex strings the store sorts by); ZERO64 is 0.              *)
(***************************************************************************)
EXTENDS Integers, Sequences, FiniteSets, TLC

\* Bounds of the model: the number of connect/disconnect calls in one run,
\* made in chain order (MaxCalls) or in any order (MaxCallsAny).
MaxCalls == 4
MaxCallsAny == 2

\* With a query running beside the calls: the number of calls and of queries.
MaxCallsQuery == 3
MaxQueries == 1

\* ZERO64 is the least transaction id. MaxHeightKey is the upper height of the
\* range scans: 0xffffffff in the source, here the largest integer TLC has
\* (2^31 - 1); the heights of the model are far below both.
ZERO64 == 0
MaxHeightKey == 2147483647

NoBlock == "none"

----------------------------------------------------------------------------
(* Blocks as rpcUtil.block hands them to the engine (spec section 3).      *)

CoinbaseIn == [coinbase |-> TRUE, prevTxId |-> ZERO64, vout |-> 0]
In(p, n) == [coinbase |-> FALSE, prevTxId |-> p, vout |-> n]
Out(sc, val, n) == [scId |-> sc, value |-> val, vout |-> n]
Tx(id, vs, ins, outs) ==
  [txId |-> id, txBuffer |-> 100 + id, vsize |-> vs, ins |-> ins, outs |-> outs]

BlockIds == {"G", "A1", "A2", "B1"}

\* G <- A1 <- A2 is one branch, G <- B1 the other (a reorg replaces A1 by B1).
BlockOf(id) ==
  CASE id = "G" ->
         [blockId |-> "G", height |-> 0, previousblockhash |-> NoBlock, size |-> 10,
          transactions |-> << Tx(1, 1, <<CoinbaseIn>>, <<Out(1, 50, 0)>>) >>]
    [] id = "A1" ->
         [blockId |-> "A1", height |-> 1, previousblockhash |-> "G", size |-> 20,
          transactions |->
            << Tx(3, 1, <<CoinbaseIn>>, <<Out(1, 50, 0)>>),
               Tx(2, 4, <<In(1, 0)>>, <<Out(2, 30, 0), Out(1, 14, 1)>>) >>]
    [] id = "A2" ->
         [blockId |-> "A2", height |-> 2, previousblockhash |-> "A1", size |-> 30,
          transactions |->
            << Tx(6, 1, <<CoinbaseIn, In(2, 1)>>, <<Out(2, 60, 0)>>),
               Tx(4, 2, <<In(2, 0), In(3, 0)>>, <<Out(2, 85, 0)>>),
               Tx(5, 5, <<In(4, 0)>>, <<Out(1, 80, 0)>>) >>]
    [] id = "B1" ->
         [blockId |-> "B1", height |-> 1, previousblockhash |-> "G", size |-> 25,
          transactions |->
            << Tx(7, 1, <<CoinbaseIn>>, <<Out(2, 50, 0)>>),
               Tx(8, 2, <<In(1, 0)>>, <<Out(1, 45, 0)>>) >>]
    [] id = "C1" ->
         [blockId |-> "C1", height |-> 1, previousblockhash |-> "G", size |-> 15,
          transactions |->
            << Tx(9, 1, <<CoinbaseIn, In(20, 0)>>, <<Out(2, 50, 0)>>),
               Tx(10, 2, <<In(1, 0)>>, <<Out(1, 48, 0)>>) >>]

\* With C1, a block on G whose coinbase transaction has a second input that
\* refers to an output no block creates.
BlockIdsStray == BlockIds \cup {"C1"}

\* The height arguments a caller passes to connect.
HeightArgs(id) == {BlockOf(id).height, BlockOf(id).height + 1}

----------------------------------------------------------------------------
(* The ordered key-value store: every index is a map from key to value.    *)

EmptyMap == [k \in {} |-> 0]
MapPut(m, k, v) == [x \in (DOMAIN m) \cup {k} |-> IF x = k THEN v ELSE m[x]]
MapDel(m, k) == [x \in (DOMAIN m) \ {k} |-> m[x]]

TipKey == <<>>

EmptyDb ==
  [tip |-> EmptyMap, txIndex |-> EmptyMap, txoIndex |-> EmptyMap,
   spentIndex |-> EmptyMap, scIndex |-> EmptyMap, feeIndex |-> EmptyMap]

Put(type, key, val) == [op |-> "put", type |-> type, key |-> key, val |-> val]
Del(type, key) == [op |-> "del", type |-> type, key |-> key, val |-> 0]

ApplyOp(d, o) ==
  [d EXCEPT ![o.type] =
     IF o.op = "put" THEN MapPut(d[o.type], o.key, o.val) ELSE MapDel(d[o.type], o.key)]

RECURSIVE ApplyBatch(_, _)
ApplyBatch(d, batch) ==
  IF batch = <<>> THEN d ELSE ApplyBatch(ApplyOp(d, Head(batch)), Tail(batch))

\* db.get: whether the key has a row, and the row.
DbHas(d, type, key) == key \in DOMAIN d[type]
DbGet(d, type, key) == d[type][key]

RECURSIVE Concat(_)
Concat(ss) == IF ss = <<>> THEN <<>> ELSE Head(ss) \o Concat(Tail(ss))

----------------------------------------------------------------------------
(* Blockchain.prototype.connect: the first-phase batch and the timers.     *)

\* `let { height, transactions } = block` shadows the height parameter.
ConnectHeight(block, heightArg) == block.height

SpentPuts(tx) ==
  Concat([vin \in 1..Len(tx.ins) |->
    IF tx.ins[vin].coinbase THEN <<>>
    ELSE << Put("spentIndex", <<tx.ins[vin].prevTxId, tx.ins[vin].vout>>,
                [txId |-> tx.txId, vin |-> vin - 1]) >>])

OutPuts(tx, height) ==
  Concat([i \in 1..Len(tx.outs) |->
    << Put("scIndex", <<tx.outs[i].scId, height, tx.txId, tx.outs[i].vout>>, "null"),
       Put("txoIndex", <<tx.txId, tx.outs[i].vout>>, [value |-> tx.outs[i].value]) >>])

\* A connect that drops the TxoIndex entry of every output it spends.
ConnectTxOpsDropSpent(tx, height) ==
  SpentPuts(tx)
    \o Concat([vin \in 1..Len(tx.ins) |->
         IF tx.ins[vin].coinbase THEN <<>>
         ELSE << Del("txoIndex", <<tx.ins[vin].prevTxId, tx.ins[vin].vout>>) >>])
    \o OutPuts(tx, height)
    \o << Put("txIndex", tx.txId, [height |-> height]) >>

ConnectTxOps(tx, height) ==
  SpentPuts(tx) \o OutPuts(tx, height)
    \o << Put("txIndex", tx.txId, [height |-> height]) >>

ConnectBatch(blockId, block, heightArg) ==
  LET height == ConnectHeight(block, heightArg)
  IN  Concat([t \in 1..Len(block.transactions) |->
               ConnectTxOps(block.transactions[t], height)])
        \o << Put("tip", TipKey, [blockId |-> blockId, height |-> height]) >>

\* The setTimeout callbacks connect schedules, in the order it schedules them.
SpentTimers(tx) ==
  Concat([vin \in 1..Len(tx.ins) |->
    IF tx.ins[vin].coinbase THEN <<>>
    ELSE << <<"spent", <<tx.ins[vin].prevTxId, tx.ins[vin].vout>>, tx.txId>> >>])

ScriptTimers(tx) ==
  [i \in 1..Len(tx.outs) |-> <<"script", tx.outs[i].scId, tx.txId, tx.txBuffer>>]

ConnectTimers(blockId, block, heightArg) ==
  Concat([t \in 1..Len(block.transactions) |->
           LET tx == block.transactions[t]
           IN  SpentTimers(tx) \o ScriptTimers(tx)
                 \o << <<"transaction", tx.txId, tx.txBuffer, blockId>> >>])
    \o << <<"header", blockId, ConnectHeight(block, heightArg)>> >>

----------------------------------------------------------------------------
(* Blockchain.prototype.disconnect: the batch.                             *)

\* The height disconnect writes into the tip: the disconnected block's own.
DisconnectTipHeight(block) == block.height

\* A disconnect that leaves the spends in place.
SpentDelsNone(tx) == <<>>

SpentDels(tx) ==
  Concat([vin \in 1..Len(tx.ins) |->
    IF tx.ins[vin].coinbase THEN <<>>
    ELSE << Del("spentIndex", <<tx.ins[vin].prevTxId, tx.ins[vin].vout>>) >>])

\* A disconnect that counts the outputs from one.
OutDelsFromOne(tx, height) ==
  Concat([i \in 1..Len(tx.outs) |->
    << Del("scIndex", <<tx.outs[i].scId, height, tx.txId, i>>),
       Del("txoIndex", <<tx.txId, i>>) >>])

\* outs.forEach(({ scId }, vout) => ...): vout is the position in outs.
OutDels(tx, height) ==
  Concat([i \in 1..Len(tx.outs) |->
    << Del("scIndex", <<tx.outs[i].scId, height, tx.txId, i - 1>>),
       Del("txoIndex", <<tx.txId, i - 1>>) >>])

DisconnectTxOps(tx, height) ==
  SpentDels(tx) \o OutDels(tx, height) \o << Del("txIndex", tx.txId) >>

\* A disconnect that also deletes the fee entry of the block's height.
DisconnectBatchWithFee(block) ==
  Concat([t \in 1..Len(block.transactions) |->
           DisconnectTxOps(block.transactions[t], block.height)])
    \o << Del("feeIndex", block.height),
          Put("tip", TipKey,
              [blockId |-> block.previousblockhash,
               height |-> DisconnectTipHeight(block)]) >>

DisconnectBatch(block) ==
  Concat([t \in 1..Len(block.transactions) |->
           DisconnectTxOps(block.transactions[t], block.height)])
    \o << Put("tip", TipKey,
              [blockId |-> block.previousblockhash,
               height |-> DisconnectTipHeight(block)]) >>

----------------------------------------------------------------------------
(* box and the fee rate of connect2ndOrder.                                *)

\* feeRates.sort((a, b) => a - b)
RECURSIVE SortAsc(_)
SortAsc(s) ==
  IF s = <<>> THEN <<>>
  ELSE LET i == CHOOSE i \in 1..Len(s) : \A j \in 1..Len(s) : s[i] <= s[j]
       IN  <<s[i]>> \o SortAsc([k \in 1..(Len(s) - 1) |-> IF k < i THEN s[k] ELSE s[k + 1]])

\* A box that takes the lower of the two middle values as the median.
boxLowerMedian(data) ==
  IF Len(data) = 0 THEN [q1 |-> 0, median |-> 0, q3 |-> 0]
  ELSE LET quarter  == Len(data) \div 4
           midpoint == (Len(data) - 1) \div 2
       IN  [q1 |-> data[quarter + 1],
            median |-> data[midpoint + 1],
            q3 |-> data[midpoint + quarter + 1]]

box(data) ==
  IF Len(data) = 0 THEN [q1 |-> 0, median |-> 0, q3 |-> 0]
  ELSE LET quarter  == Len(data) \div 4
           midpoint == Len(data) \div 2
       IN  [q1 |-> data[quarter + 1],
            median |-> data[midpoint + 1],
            q3 |-> data[midpoint + quarter + 1]]

RECURSIVE SumValues(_)
SumValues(outs) ==
  IF outs = <<>> THEN 0 ELSE Head(outs).value + SumValues(Tail(outs))

\* let coinbase = false; ins.forEach(... coinbase = true ...)
IsCoinbaseTx(tx) == \E vin \in 1..Len(tx.ins) : tx.ins[vin].coinbase

\* A fee rate rounded toward zero.
FeeRateTruncated(tx, inAccum) ==
  LET fee == inAccum - SumValues(tx.outs)
  IN  IF fee < 0 THEN 0 - ((0 - fee) \div tx.vsize) ELSE fee \div tx.vsize

\* Math.floor((inAccum - outAccum) / vsize)
FeeRate(tx, inAccum) == (inAccum - SumValues(tx.outs)) \div tx.vsize

----------------------------------------------------------------------------
(* State.                                                                  *)

VARIABLES
  db,          \* the six indices of the store
  pc,          \* where the call in flight stands ("idle": none in flight)
  call,        \* the current (or last) call: [op, blockId, height]
  atomic,      \* the batch built in memory and not yet written
  feeRates,    \* connect2ndOrder: the sample, in push order
  inAccum,     \* connect2ndOrder: inAccum of each transaction
  taskLive,    \* connect2ndOrder: the transaction's task has not called next
  outerLive,   \* connect2ndOrder: the callback of parallel(tasks) is not yet used
  pendingGets, \* connect2ndOrder: the db.get calls in flight, <<tx, vin>>
  cb,          \* what the caller's callback received in this call, in order
  fault,       \* what failed in this call, in order
  timers,      \* the setTimeout callbacks not yet run, in order
  hdr,         \* the header request in flight: <<blockId, height>>, or <<>>
  emitted,     \* the notifications emitted since the current call started
  snap,        \* the store when the current (or last) call started
  prev,        \* the call before: its call, cb and snap
  chain,       \* the blocks connected now, oldest first
  inOrder,     \* every call so far was made in chain order
  allOk,       \* every call so far succeeded
  calls,       \* the number of calls made
  q,           \* the transactionIdsByScriptId query in flight, or the last one
  fq           \* the fees query in flight, or the last one

opVars == <<pc, call, atomic, cb>>
secondVars == <<feeRates, inAccum, taskLive, outerLive, pendingGets>>
notifyVars == <<timers, hdr, emitted>>
ghostVars == <<fault, snap, prev, chain, inOrder, allOk, calls>>
vars == <<db, opVars, secondVars, notifyVars, ghostVars, q, fq>>

NoCall == [op |-> "none", blockId |-> NoBlock, height |-> 0]

NoQuery ==
  [pc |-> "idle", n |-> 0, scId |-> 0, height |-> 0, txosMap |-> EmptyMap,
   pending |-> {}, spentMap |-> EmptyMap, live |-> FALSE, err |-> <<>>,
   txIds |-> EmptyMap, db |-> EmptyDb, clean |-> TRUE]

\* fees(n): the tip height read, the rows pushed, the error passed, the store
\* as it was at the tip read and at the scan, whether no call was in flight
\* and no commit landed from the tip read to the scan, and the heights of the
\* blocks connected then.
NoFees ==
  [pc |-> "idle", k |-> 0, n |-> 0, maxHeight |-> 0, fresult |-> <<>>,
   err |-> <<>>, atTip |-> EmptyDb, atScan |-> EmptyDb,
   quiet |-> FALSE, connected |-> {}]

Init ==
  /\ db = EmptyDb
  /\ pc = "idle"
  /\ call = NoCall
  /\ atomic = <<>>
  /\ feeRates = <<>>
  /\ inAccum = <<>>
  /\ taskLive = <<>>
  /\ outerLive = FALSE
  /\ pendingGets = {}
  /\ cb = <<>>
  /\ timers = <<>>
  /\ hdr = <<>>
  /\ emitted = <<>>
  /\ fault = <<>>
  /\ snap = EmptyDb
  /\ prev = [call |-> NoCall, cb |-> <<>>, fault |-> <<>>, snap |-> EmptyDb]
  /\ chain = <<>>
  /\ inOrder = TRUE
  /\ allOk = TRUE
  /\ calls = 0
  /\ q = NoQuery
  /\ fq = NoFees

CurBlock == BlockOf(call.blockId)
HasTip == DbHas(db, "tip", TipKey)
Tip == DbGet(db, "tip", TipKey)

\* A call starts when none is in flight (one writer at a time) and the
\* timers of the call before have run.
CanCall == pc = "idle" /\ timers = <<>> /\ hdr = <<>>

StartCall(c) ==
  /\ CanCall
  /\ call' = c
  /\ cb' = <<>>
  /\ atomic' = <<>>
  /\ feeRates' = <<>>
  /\ inAccum' = <<>>
  /\ taskLive' = <<>>
  /\ outerLive' = FALSE
  /\ pendingGets' = {}
  /\ emitted' = <<>>
  /\ fault' = <<>>
  /\ snap' = db
  /\ prev' = [call |-> call, cb |-> cb, fault |-> fault, snap |-> snap]
  /\ calls' = calls + 1
  /\ UNCHANGED <<db, timers, hdr, chain, inOrder, allOk, q, fq>>

\* The callback of the call receives res.
Callback(res) ==
  /\ cb' = Append(cb, res)
  /\ allOk' = (allOk /\ res = "ok")

\* A collaborator fails at `at`.
Fault(at) == fault' = Append(fault, at)

\* The orchestration's discipline: connect the block after the tip (or the
\* tip's block again), disconnect the tip's block.
ChainOrderConnect(b) ==
  IF ~HasTip THEN BlockOf(b).previousblockhash = NoBlock
  ELSE Tip.blockId \in {b, BlockOf(b).previousblockhash}

ChainOrderDisconnect(b) == HasTip /\ Tip.blockId = b

\* A first-phase commit lands while the query is reading.
QueryAcross == IF q.pc \in {"txos", "spent"} THEN [q EXCEPT !.clean = FALSE] ELSE q

Last(s) == s[Len(s)]
Front(s) == SubSeq(s, 1, Len(s) - 1)

----------------------------------------------------------------------------
(* connect                                                                 *)

ConnectCall(b, h) ==
  /\ StartCall([op |-> "connect", blockId |-> b, height |-> h])
  /\ pc' = "connect:fetch"

\* rpcUtil.block fails: if (err) return callback(err)
ConnectFetchErr ==
  /\ pc = "connect:fetch"
  /\ Fault("fetch")
  /\ Callback("FetchError")
  /\ pc' = "idle"
  /\ UNCHANGED <<db, call, atomic, secondVars, notifyVars, snap, prev, chain, inOrder, calls, q, fq>>

\* rpcUtil.block answers: the batch is built, the timers set, the write issued.
ConnectFetchOk ==
  /\ pc = "connect:fetch"
  /\ atomic' = ConnectBatch(call.blockId, CurBlock, call.height)
  /\ timers' = timers \o ConnectTimers(call.blockId, CurBlock, call.height)
  /\ pc' = "connect:write"
  /\ UNCHANGED <<db, call, cb, secondVars, hdr, emitted, ghostVars, q, fq>>

\* A fee batch keyed by the height the caller passed.
FeeBatchAtArgHeight(block, rates) ==
  << Put("feeIndex", call.height, [fees |-> box(SortAsc(rates)), size |-> block.size]) >>

\* A fee batch that boxes the sample in the order it was pushed.
FeeBatchUnsorted(block, rates) ==
  << Put("feeIndex", block.height, [fees |-> box(rates), size |-> block.size]) >>

\* The fee batch: the sorted sample boxed, under the block's height.
FeeBatch(block, rates) ==
  << Put("feeIndex", block.height, [fees |-> box(SortAsc(rates)), size |-> block.size]) >>

\* The tasks of connect2ndOrder that finish in the turn that starts them.
\* Tasks that look up the inputs of a transaction with a coinbase input too.
ImmediateTxNoInputs(tx) == Len(tx.ins) = 0

ImmediateTx(tx) == IsCoinbaseTx(tx) \/ Len(tx.ins) = 0
ImmediateRate(tx) == IF IsCoinbaseTx(tx) THEN 0 ELSE FeeRate(tx, 0)

FirstRates(block) ==
  Concat([t \in 1..Len(block.transactions) |->
    IF ImmediateTx(block.transactions[t])
    THEN << ImmediateRate(block.transactions[t]) >> ELSE <<>>])

\* The lookups issued: one per input that is not a coinbase, of the tasks that
\* run their subtasks.
FirstGets(block) ==
  UNION {{<<t, vin>> : vin \in {v \in 1..Len(block.transactions[t].ins) :
                                  ~block.transactions[t].ins[v].coinbase}} :
           t \in {u \in 1..Len(block.transactions) : ~ImmediateTx(block.transactions[u])}}

\* The connected chain after the first phase of connect(b) has committed.
ChainAfterConnect(b) ==
  IF chain # <<>> /\ Last(chain) = b THEN chain
  ELSE IF BlockOf(b).previousblockhash = (IF chain = <<>> THEN NoBlock ELSE Last(chain))
       THEN Append(chain, b)
       ELSE <<>>

OrderAfterConnect(b) ==
  /\ inOrder
  /\ \/ chain # <<>> /\ Last(chain) = b
     \/ BlockOf(b).previousblockhash = (IF chain = <<>> THEN NoBlock ELSE Last(chain))

\* connect2ndOrder starts its tasks: the coinbase transactions push 0, the
\* others issue their lookups; with no lookup to wait for, the fee batch is
\* issued at once.
Start2nd ==
  /\ feeRates' = FirstRates(CurBlock)
  /\ inAccum' = [t \in 1..Len(CurBlock.transactions) |-> 0]
  /\ pendingGets' = FirstGets(CurBlock)
  /\ taskLive' = [t \in 1..Len(CurBlock.transactions) |->
                    \E g \in FirstGets(CurBlock) : g[1] = t]
  /\ IF FirstGets(CurBlock) = {}
     THEN /\ outerLive' = FALSE
          /\ atomic' = FeeBatch(CurBlock, FirstRates(CurBlock))
          /\ pc' = "connect:feewrite"
     ELSE /\ outerLive' = TRUE
          /\ atomic' = <<>>
          /\ pc' = "connect:2nd"

\* A write failure that is reported and not returned from.
ConnectWriteErrNoReturn ==
  /\ pc = "connect:write"
  /\ Fault("write")
  /\ Callback("WriteError")
  /\ Start2nd
  /\ UNCHANGED <<db, call, notifyVars, snap, prev, chain, inOrder, calls, q, fq>>

\* atomic.write fails: if (err) return callback(err)
ConnectWriteErr ==
  /\ pc = "connect:write"
  /\ Fault("write")
  /\ Callback("WriteError")
  /\ atomic' = <<>>
  /\ pc' = "idle"
  /\ UNCHANGED <<db, call, secondVars, notifyVars, snap, prev, chain, inOrder, calls, q, fq>>

\* atomic.write succeeds: the batch is in the store and connect2ndOrder starts.
ConnectWriteOk ==
  /\ pc = "connect:write"
  /\ db' = ApplyBatch(db, atomic)
  /\ inOrder' = OrderAfterConnect(call.blockId)
  /\ chain' = IF OrderAfterConnect(call.blockId) THEN ChainAfterConnect(call.blockId) ELSE <<>>
  /\ Start2nd
  /\ q' = QueryAcross
  /\ UNCHANGED fq
  /\ UNCHANGED <<call, cb, notifyVars, fault, snap, prev, allOk, calls>>

----------------------------------------------------------------------------
(* connect2ndOrder: the lookups return, in any order.                      *)

\* What one db.get of the previous output gives the subtask: "ok", or the error.
GetOutcome(found, readErr) ==
  IF readErr THEN "ReadError"
  ELSE IF ~found THEN "MissingOutputError"
  ELSE "ok"

\* run-parallel: the callback of a group is used once, by the first error or
\* by the last result.
\* A group whose callback is used again by every later error.
GroupFiresOnEveryError(live, err, nLeft) == err \/ (live /\ nLeft = 0)

GroupFires(live, err, nLeft) == live /\ (err \/ nLeft = 0)

GetReturn(t, vin, readErr) ==
  LET tx      == CurBlock.transactions[t]
      input   == tx.ins[vin]
      key     == <<input.prevTxId, input.vout>>
      res     == GetOutcome(DbHas(db, "txoIndex", key), readErr)
      err     == res # "ok"
      left    == pendingGets \ {<<t, vin>>}
      subLeft == Cardinality({g \in left : g[1] = t})
      acc     == IF err THEN inAccum[t] ELSE inAccum[t] + DbGet(db, "txoIndex", key).value
      inner   == GroupFires(taskLive[t], err, subLeft)
      live    == IF inner THEN [taskLive EXCEPT ![t] = FALSE] ELSE taskLive
      rates   == IF inner /\ ~err THEN Append(feeRates, FeeRate(tx, acc)) ELSE feeRates
      nLive   == Cardinality({u \in DOMAIN live : live[u]})
      outer   == inner /\ GroupFires(outerLive, err, nLive)
  IN  /\ pc = "connect:2nd"
      /\ <<t, vin>> \in pendingGets
      /\ pendingGets' = left
      /\ inAccum' = [inAccum EXCEPT ![t] = acc]
      /\ taskLive' = live
      /\ feeRates' = rates
      /\ outerLive' = (outerLive /\ ~outer)
      /\ fault' = IF err THEN Append(fault, IF readErr THEN "read" ELSE "missing") ELSE fault
      /\ IF outer /\ err THEN Callback(res) ELSE UNCHANGED <<cb, allOk>>
      /\ IF outer /\ ~err
         THEN /\ atomic' = FeeBatch(CurBlock, rates)
              /\ pc' = "connect:feewrite"
         ELSE /\ atomic' = atomic
              /\ pc' = IF left = {} THEN "idle" ELSE "connect:2nd"
      /\ UNCHANGED <<db, call, notifyVars, snap, prev, chain, inOrder, calls, q, fq>>

\* A fee-batch failure that is reported as success.
FeeWriteErrSwallowed ==
  /\ pc = "connect:feewrite"
  /\ Fault("feewrite")
  /\ Callback("ok")
  /\ atomic' = <<>>
  /\ pc' = "idle"
  /\ UNCHANGED <<db, call, secondVars, notifyVars, snap, prev, chain, inOrder, calls, q, fq>>

\* atomic.write(callback) of the fee batch.
FeeWriteErr ==
  /\ pc = "connect:feewrite"
  /\ Fault("feewrite")
  /\ Callback("WriteError")
  /\ atomic' = <<>>
  /\ pc' = "idle"
  /\ UNCHANGED <<db, call, secondVars, notifyVars, snap, prev, chain, inOrder, calls, q, fq>>

\* A fee write that adds to the entry already there instead of replacing it.
FeeWriteOkAppend ==
  /\ pc = "connect:feewrite"
  /\ db' = IF DbHas(db, "feeIndex", atomic[1].key)
           THEN [db EXCEPT !.feeIndex[atomic[1].key].size = @ + atomic[1].val.size]
           ELSE ApplyBatch(db, atomic)
  /\ Callback("ok")
  /\ atomic' = <<>>
  /\ pc' = "idle"
  /\ UNCHANGED <<call, secondVars, notifyVars, fault, snap, prev, chain, inOrder, calls, q, fq>>

FeeWriteOk ==
  /\ pc = "connect:feewrite"
  /\ db' = ApplyBatch(db, atomic)
  /\ Callback("ok")
  /\ atomic' = <<>>
  /\ pc' = "idle"
  /\ UNCHANGED <<call, secondVars, notifyVars, fault, snap, prev, chain, inOrder, calls, q, fq>>

----------------------------------------------------------------------------
(* disconnect                                                              *)

DisconnectCall(b) ==
  /\ StartCall([op |-> "disconnect", blockId |-> b, height |-> 0])
  /\ pc' = "disconnect:fetch"

DisconnectFetchErr ==
  /\ pc = "disconnect:fetch"
  /\ Fault("fetch")
  /\ Callback("FetchError")
  /\ pc' = "idle"
  /\ UNCHANGED <<db, call, atomic, secondVars, notifyVars, snap, prev, chain, inOrder, calls, q, fq>>

DisconnectFetchOk ==
  /\ pc = "disconnect:fetch"
  /\ atomic' = DisconnectBatch(CurBlock)
  /\ pc' = "disconnect:write"
  /\ UNCHANGED <<db, call, cb, secondVars, notifyVars, ghostVars, q, fq>>

DisconnectWriteErr ==
  /\ pc = "disconnect:write"
  /\ Fault("write")
  /\ Callback("WriteError")
  /\ atomic' = <<>>
  /\ pc' = "idle"
  /\ UNCHANGED <<db, call, secondVars, notifyVars, snap, prev, chain, inOrder, calls, q, fq>>

OrderAfterDisconnect(b) == inOrder /\ chain # <<>> /\ Last(chain) = b

DisconnectWriteOk ==
  /\ pc = "disconnect:write"
  /\ db' = ApplyBatch(db, atomic)
  /\ Callback("ok")
  /\ inOrder' = OrderAfterDisconnect(call.blockId)
  /\ chain' = IF OrderAfterDisconnect(call.blockId) THEN Front(chain) ELSE <<>>
  /\ atomic' = <<>>
  /\ pc' = "idle"
  /\ q' = QueryAcross
  /\ UNCHANGED fq
  /\ UNCHANGED <<call, secondVars, notifyVars, fault, snap, prev, calls>>

----------------------------------------------------------------------------
(* The timers of connect and the header request.                           *)

\* The timers of one connect are set in one turn with the same delay, and
\* they run in one pass in the order set: the emits, then the header request
\* of the block event.
RECURSIVE Emits(_)
Emits(ts) ==
  IF ts = <<>> THEN <<>>
  ELSE (IF Head(ts)[1] = "header" THEN <<>> ELSE <<Head(ts)>>) \o Emits(Tail(ts))

TimerFire ==
  /\ timers # <<>>
  /\ timers' = <<>>
  /\ emitted' = emitted \o Emits(timers)
  /\ hdr' = <<Last(timers)[2], Last(timers)[3]>>
  /\ UNCHANGED <<db, opVars, secondVars, ghostVars, q, fq>>

\* rpcUtil.header fails: if (err) return
HeaderErr ==
  /\ hdr # <<>>
  /\ hdr' = <<>>
  /\ UNCHANGED <<db, opVars, secondVars, timers, emitted, ghostVars, q, fq>>

HeaderOk ==
  /\ hdr # <<>>
  /\ hdr' = <<>>
  /\ emitted' = Append(emitted, <<"block", hdr[1], hdr[2]>>)
  /\ UNCHANGED <<db, opVars, secondVars, timers, ghostVars, q, fq>>

----------------------------------------------------------------------------
(* The specifications.                                                     *)

Steps ==
  \/ ConnectFetchErr
  \/ ConnectFetchOk
  \/ ConnectWriteErr
  \/ ConnectWriteOk
  \/ \E g \in pendingGets : \E readErr \in BOOLEAN : GetReturn(g[1], g[2], readErr)
  \/ FeeWriteErr
  \/ FeeWriteOk
  \/ DisconnectFetchErr
  \/ DisconnectFetchOk
  \/ DisconnectWriteErr
  \/ DisconnectWriteOk
  \/ TimerFire
  \/ HeaderErr
  \/ HeaderOk

\* The calls come in chain order, as the orchestration makes them.
Next ==
  \/ \E b \in BlockIds : \E h \in HeightArgs(b) :
       calls < MaxCalls /\ ChainOrderConnect(b) /\ ConnectCall(b, h)
  \/ \E b \in BlockIds : calls < MaxCalls /\ ChainOrderDisconnect(b) /\ DisconnectCall(b)
  \/ Steps

Spec == Init /\ [][Next]_vars

\* The calls come in any order: the engine itself checks none.
NextAny ==
  \/ \E b \in BlockIds : \E h \in HeightArgs(b) : calls < MaxCallsAny /\ ConnectCall(b, h)
  \/ \E b \in BlockIds : calls < MaxCallsAny /\ DisconnectCall(b)
  \/ Steps

SpecAny == Init /\ [][NextAny]_vars

----------------------------------------------------------------------------
(* The queries.                                                            *)

\* The store sorts composite keys field by field, in declared order.
RECURSIVE KeyLt(_, _)
KeyLt(a, b) ==
  IF a = <<>> THEN FALSE
  ELSE Head(a) < Head(b) \/ (Head(a) = Head(b) /\ KeyLt(Tail(a), Tail(b)))

KeyLe(a, b) == a = b \/ KeyLt(a, b)

RECURSIVE SortKeys(_)
SortKeys(ks) ==
  IF ks = {} THEN <<>>
  ELSE LET k == CHOOSE k \in ks : \A j \in ks : KeyLe(k, j)
       IN  <<k>> \o SortKeys(ks \ {k})

\* db.iterator(type, { gte, lt }): the keys in the range, in key order.
Iterator(d, type, gte, lt) ==
  SortKeys({k \in DOMAIN d[type] : KeyLe(gte, k) /\ KeyLt(k, lt)})

\* A scan that starts at the script's first height.
TxosGteAnyHeight(scId, height) == <<scId, 0, ZERO64, 0>>

\* The range txosByScriptId scans.
TxosGte(scId, height) == <<scId, height, ZERO64, 0>>
TxosLt(scId) == <<scId, MaxHeightKey, ZERO64, 0>>

\* The scIndex keys txosByScriptId visits, in the order it visits them.
TxosVisits(d, scId, height) == Iterator(d, "scIndex", TxosGte(scId, height), TxosLt(scId))

\* resultMap[`${txId}:${vout}`] = { txId, vout, scId, height }: a decimal vout
\* after a fixed-width txId, so the key is the pair.
RECURSIVE ResultMap(_, _, _)
ResultMap(m, visits, scId) ==
  IF visits = <<>> THEN m
  ELSE LET k == Head(visits)
       IN  ResultMap(MapPut(m, <<k[3], k[4]>>,
                            [txId |-> k[3], vout |-> k[4], scId |-> scId, height |-> k[2]]),
                     Tail(visits), scId)

txosByScriptId(d, scId, height) == ResultMap(EmptyMap, TxosVisits(d, scId, height), scId)

\* db.get results as the callback sees them: <<row>>, or <<>> when absent.
Row(d, type, key) == IF DbHas(d, type, key) THEN <<DbGet(d, type, key)>> ELSE <<>>

spentFromTxo(d, txo) == Row(d, "spentIndex", <<txo.txId, txo.vout>>)

txoByTxo(d, txId, vout) == Row(d, "txoIndex", <<txId, vout>>)

----------------------------------------------------------------------------
(* transactionIdsByScriptId, beside the calls.                             *)

RECURSIVE SetToSeq(_)
SetToSeq(ks) ==
  IF ks = {} THEN <<>>
  ELSE LET k == CHOOSE k \in ks : TRUE IN <<k>> \o SetToSeq(ks \ {k})

RECURSIVE MarkAll(_, _)
MarkAll(m, ids) == IF ids = <<>> THEN m ELSE MarkAll(MapPut(m, Head(ids), TRUE), Tail(ids))

\* A result that holds the spenders alone.
TxIdsOfSpendersOnly(txosMap, spentMap) ==
  MarkAll(EmptyMap,
          SetToSeq({spentMap[x][1].txId : x \in {y \in DOMAIN spentMap : spentMap[y] # <<>>}}))

\* txIds[spent.txId] = true for every spent found, txIds[txId] = true for
\* every txo: an object, so each id is in it once.
TxIdsOf(txosMap, spentMap) ==
  MarkAll(MarkAll(EmptyMap,
                  SetToSeq({spentMap[x][1].txId :
                              x \in {y \in DOMAIN spentMap : spentMap[y] # <<>>}})),
          SetToSeq({txosMap[x].txId : x \in DOMAIN txosMap}))

QueryCall(scId, height) ==
  /\ q.pc \in {"idle", "done"}
  /\ q.n < MaxQueries
  /\ q' = [NoQuery EXCEPT !.pc = "txos", !.n = q.n + 1, !.scId = scId,
                          !.height = height, !.db = db]
  /\ UNCHANGED <<db, opVars, secondVars, notifyVars, ghostVars, fq>>

\* txosByScriptId fails: if (err) return callback(err)
QueryTxosErr ==
  /\ q.pc = "txos"
  /\ q' = [q EXCEPT !.pc = "done", !.err = <<"ReadError">>]
  /\ UNCHANGED <<db, opVars, secondVars, notifyVars, ghostVars, fq>>

\* txosByScriptId answers: one spentFromTxo per txo is started; with no txo
\* the result is empty.
QueryTxosOk ==
  LET txosMap == txosByScriptId(db, q.scId, q.height)
  IN  /\ q.pc = "txos"
      /\ q' = IF DOMAIN txosMap = {}
              THEN [q EXCEPT !.pc = "done", !.txIds = TxIdsOf(EmptyMap, EmptyMap)]
              ELSE [q EXCEPT !.pc = "spent", !.txosMap = txosMap,
                             !.pending = DOMAIN txosMap, !.live = TRUE]
      /\ UNCHANGED <<db, opVars, secondVars, notifyVars, ghostVars, fq>>

\* One spentFromTxo returns; the first error, or the last result, ends the query.
QuerySpentReturn(x, readErr) ==
  LET left     == q.pending \ {x}
      spentMap == IF readErr THEN q.spentMap
                  ELSE MapPut(q.spentMap, x, spentFromTxo(db, q.txosMap[x]))
      fires    == GroupFires(q.live, readErr, Cardinality(left))
  IN  /\ q.pc = "spent"
      /\ x \in q.pending
      /\ q' = [q EXCEPT !.pending = left,
                        !.spentMap = spentMap,
                        !.live = q.live /\ ~fires,
                        !.err = IF fires /\ readErr THEN <<"ReadError">> ELSE q.err,
                        !.txIds = IF fires /\ ~readErr
                                  THEN TxIdsOf(q.txosMap, spentMap) ELSE q.txIds,
                        !.pc = IF left = {} THEN "done" ELSE "spent"]
      /\ UNCHANGED <<db, opVars, secondVars, notifyVars, ghostVars, fq>>

QuerySteps ==
  \/ \E scId \in {1, 2} : \E height \in {0, 2} : QueryCall(scId, height)
  \/ QueryTxosErr
  \/ QueryTxosOk
  \/ \E x \in q.pending : \E readErr \in BOOLEAN : QuerySpentReturn(x, readErr)

\* The steps of calls in which no collaborator fails.
StepsOk ==
  \/ ConnectFetchOk
  \/ ConnectWriteOk
  \/ \E g \in pendingGets : GetReturn(g[1], g[2], FALSE)
  \/ FeeWriteOk
  \/ DisconnectFetchOk
  \/ DisconnectWriteOk
  \/ TimerFire
  \/ HeaderOk

\* Calls in chain order that all succeed, and queries at any moment.
NextQuery ==
  \/ \E b \in BlockIds :
       calls < MaxCallsQuery /\ ChainOrderConnect(b) /\ ConnectCall(b, BlockOf(b).height)
  \/ \E b \in BlockIds : calls < MaxCallsQuery /\ ChainOrderDisconnect(b) /\ DisconnectCall(b)
  \/ StepsOk
  \/ QuerySteps

SpecQuery == Init /\ [][NextQuery]_vars

----------------------------------------------------------------------------
(* Connect followed by Disconnect of the same block.                       *)

Idle == pc = "idle"
Succeeded == cb = <<"ok">>

\* The last two calls: a successful connect of a block, then a successful
\* disconnect of it.
ConnectedThenDisconnected ==
  /\ Idle
  /\ call.op = "disconnect"
  /\ Succeeded
  /\ prev.call.op = "connect"
  /\ prev.call.blockId = call.blockId
  /\ prev.cb = <<"ok">>

\* The tip T the block was connected on: {previous block, height - 1}.
ConnectedOnParentTip ==
  /\ DbHas(prev.snap, "tip", TipKey)
  /\ DbGet(prev.snap, "tip", TipKey) =
       [blockId |-> CurBlock.previousblockhash, height |-> CurBlock.height - 1]
  /\ prev.call.height = CurBlock.height

\* C1: after a successful Connect(B, H) on top of Tip T = {P, H - 1} and a
\* successful Disconnect(B), the Tip entry equals T again in blockId and height.
C1_DisconnectRestoresTip ==
  (ConnectedThenDisconnected /\ ConnectedOnParentTip)
    => Row(db, "tip", TipKey) = Row(prev.snap, "tip", TipKey)

\* What the code does there: the blockId is restored, the height is not.
C1_TipAfterDisconnect ==
  (ConnectedThenDisconnected /\ ConnectedOnParentTip)
    => /\ Tip.blockId = DbGet(prev.snap, "tip", TipKey).blockId
       /\ Tip.height = DbGet(prev.snap, "tip", TipKey).height + 1

FourIndices == {"txIndex", "txoIndex", "scIndex", "spentIndex"}

\* None of the keys Connect(b) writes to the four indices is in d.
FreshKeys(d, b) ==
  LET batch == ConnectBatch(b, BlockOf(b), BlockOf(b).height)
  IN  \A i \in 1..Len(batch) :
        batch[i].type \in FourIndices => ~DbHas(d, batch[i].type, batch[i].key)

\* C2: for a block none of whose index keys exist before it is connected,
\* after a successful Connect and a successful Disconnect of it TxIndex,
\* TxoIndex, ScriptIndex and SpentIndex hold exactly the entries they held
\* before the Connect.
C2_DisconnectUndoesConnect ==
  (ConnectedThenDisconnected /\ FreshKeys(prev.snap, call.blockId))
    => \A type \in FourIndices : db[type] = prev.snap[type]

\* A block with spends and two outputs in one transaction went through it,
\* on top of indices that were not empty.
C2_Witness ==
  /\ ConnectedThenDisconnected
  /\ FreshKeys(prev.snap, call.blockId)
  /\ call.blockId = "A1"
  /\ prev.snap.txoIndex # EmptyMap
  /\ db.txoIndex # EmptyMap

----------------------------------------------------------------------------
(* The indices against the connected chain.                                *)

Connected == {chain[i] : i \in DOMAIN chain}

TxsOf(b) == {BlockOf(b).transactions[t] : t \in DOMAIN BlockOf(b).transactions}

\* The spends a block makes: [key |-> <<prevTxId, prevVout>>, by |-> [txId, vin]].
SpendsOf(b) ==
  UNION {{[key |-> <<tx.ins[vin].prevTxId, tx.ins[vin].vout>>,
           by |-> [txId |-> tx.txId, vin |-> vin - 1]] :
            vin \in {v \in DOMAIN tx.ins : ~tx.ins[v].coinbase}} : tx \in TxsOf(b)}

\* The outputs a block creates, as ScriptIndex keys them.
OutputsOf(b) ==
  UNION {{<<tx.outs[i].scId, BlockOf(b).height, tx.txId, tx.outs[i].vout>> :
            i \in DOMAIN tx.outs} : tx \in TxsOf(b)}

SpendKeys == {s.key : s \in UNION {SpendsOf(b) : b \in BlockIds}}
ConnectedSpends == UNION {SpendsOf(b) : b \in Connected}
ConnectedOutputs == UNION {OutputsOf(b) : b \in Connected}

\* C3: with the calls made in chain order, SpentIndex has an entry for (T, v)
\* if and only if a connected block has a non-coinbase input spending (T, v);
\* spentFromTxo(T, v) is then that spending transaction and input index, and
\* absent otherwise (so absent again once the spending block is disconnected).
C3_SpentIffConnectedSpend ==
  /\ DOMAIN db.spentIndex = {s.key : s \in ConnectedSpends}
  /\ \A k \in SpendKeys :
       LET by == {s.by : s \in {x \in ConnectedSpends : x.key = k}}
           got == spentFromTxo(db, [txId |-> k[1], vout |-> k[2]])
       IN  IF by = {} THEN got = <<>> ELSE \A x \in by : got = <<x>>

\* The block spending output (2, 0) was disconnected; the spend of (1, 0) by
\* a block still connected stays visible.
C3_Witness ==
  /\ Idle /\ Succeeded
  /\ call.op = "disconnect" /\ call.blockId = "A2"
  /\ prev.call.op = "connect" /\ prev.call.blockId = "A2" /\ prev.cb = <<"ok">>
  /\ spentFromTxo(db, [txId |-> 2, vout |-> 0]) = <<>>
  /\ spentFromTxo(db, [txId |-> 1, vout |-> 0]) = <<[txId |-> 2, vin |-> 0]>>

ScIds == {1, 2}
MinHeights == 0..3

Ascending(visits) ==
  \A i \in 1..(Len(visits) - 1) :
    KeyLt(<<visits[i][2], visits[i][3], visits[i][4]>>,
          <<visits[i + 1][2], visits[i + 1][3], visits[i + 1][4]>>)

\* C4: with the calls made in chain order, txosByScriptId(S, H) returns
\* exactly the outputs with scriptId S created at height >= H by a connected
\* block, each under the key (txId, vout), visited in ascending
\* (height, txId, vout) order; no output of another script or of a
\* disconnected block.
C4_TxosByScriptIdExact ==
  \A S \in ScIds : \A H \in MinHeights :
    LET visits == TxosVisits(db, S, H)
        want   == {o \in ConnectedOutputs : o[1] = S /\ o[2] >= H}
        got    == txosByScriptId(db, S, H)
    IN  /\ {visits[i] : i \in DOMAIN visits} = want
        /\ Ascending(visits)
        /\ DOMAIN got = {<<o[3], o[4]>> : o \in want}
        /\ \A o \in want :
             got[<<o[3], o[4]>>] = [txId |-> o[3], vout |-> o[4], scId |-> S, height |-> o[2]]

\* G, A1 and A2 are connected: script 1 has outputs at heights 0, 1 and 2, two
\* of them at height 1, and the scan from height 1 leaves the first one out.
C4_Witness ==
  /\ chain = <<"G", "A1", "A2">>
  /\ TxosVisits(db, 1, 1) = << <<1, 1, 2, 1>>, <<1, 1, 3, 0>>, <<1, 2, 5, 0>> >>
  /\ Len(TxosVisits(db, 1, 0)) = 4

----------------------------------------------------------------------------
(* TxoIndex and FeeIndex against the connected chain.                      *)

\* Every output of every connected block is in TxoIndex with its value.
ConnectedTxosPresent ==
  \A b \in Connected : \A tx \in TxsOf(b) : \A i \in DOMAIN tx.outs :
    txoByTxo(db, tx.txId, tx.outs[i].vout) = <<[value |-> tx.outs[i].value]>>

\* A step that removes a TxoIndex entry is the commit of the disconnect of the
\* block that created that output.
TxoRemovedOnlyByItsDisconnect ==
  \A k \in (DOMAIN db.txoIndex) \ (DOMAIN db'.txoIndex) :
    /\ pc = "disconnect:write"
    /\ \E o \in OutputsOf(call.blockId) : <<o[3], o[4]>> = k

\* C6: a TxoIndex entry written by Connect of block B is removed only by
\* Disconnect of B; no Connect deletes it, not even one that spends the
\* output, so txoByTxo returns its value for as long as B stays connected.
C6_TxoKeptWhileConnected ==
  [][TxoRemovedOnlyByItsDisconnect /\ ConnectedTxosPresent']_vars

\* A2 has spent output (2, 0) of A1, both are connected, and the value is there.
C6_Witness ==
  /\ Idle /\ Succeeded
  /\ chain = <<"G", "A1", "A2">>
  /\ spentFromTxo(db, [txId |-> 2, vout |-> 0]) = <<[txId |-> 4, vin |-> 0]>>
  /\ txoByTxo(db, 2, 0) = <<[value |-> 30]>>

ConnectedHeights == {BlockOf(b).height : b \in Connected}

\* C7: after every successful call of a sequence of successful calls made in
\* chain order, FeeIndex has an entry for height h if and only if a block at
\* height h is connected.
C7_FeeIndexIffConnected ==
  (Idle /\ allOk) => DOMAIN db.feeIndex = ConnectedHeights

\* C7, amended: FeeIndex has an entry for every height at which a block is
\* connected; the entry of a disconnected height is not removed.
C7_FeeIndexCoversConnected ==
  (Idle /\ allOk) => ConnectedHeights \subseteq DOMAIN db.feeIndex

\* G is connected and has its entry; A1 was connected and disconnected.
C7_Witness ==
  /\ Idle /\ allOk
  /\ chain = <<"G">>
  /\ call.op = "disconnect" /\ call.blockId = "A1"
  /\ 0 \in DOMAIN db.feeIndex

----------------------------------------------------------------------------
(* Failures.                                                               *)

FirstPhaseFaults == {"fetch", "write"}
SecondPhaseFaults == {"read", "missing", "feewrite"}

ErrorOf(at) ==
  CASE at = "fetch" -> "FetchError"
    [] at = "write" -> "WriteError"
    [] at = "read" -> "ReadError"
    [] at = "missing" -> "MissingOutputError"
    [] at = "feewrite" -> "WriteError"

SecondPhaseNotStarted ==
  feeRates = <<>> /\ inAccum = <<>> /\ taskLive = <<>> /\ pendingGets = {} /\ ~outerLive

\* C8: if the block fetch or the first-phase commit fails during Connect or
\* Disconnect, the callback receives the error, every index is as it was
\* before the call, and for Connect the fee derivation is not started.
C8_FirstPhaseFailureChangesNothing ==
  (fault # <<>> /\ fault[1] \in FirstPhaseFaults)
    => /\ cb = <<ErrorOf(fault[1])>>
       /\ db = snap
       /\ Idle
       /\ SecondPhaseNotStarted

\* The first-phase commit of a connect failed on top of a store with entries.
C8_Witness ==
  /\ fault = <<"write">>
  /\ call.op = "connect" /\ call.blockId = "A2"
  /\ db.txoIndex # EmptyMap
  /\ timers # <<>>

\* Every first-phase write of the call's block is in the store.
FirstPhaseCommitted ==
  LET batch == ConnectBatch(call.blockId, CurBlock, call.height)
  IN  /\ \A i \in 1..Len(batch) :
           Row(db, batch[i].type, batch[i].key) = <<batch[i].val>>
      /\ Row(db, "tip", TipKey) = <<[blockId |-> call.blockId, height |-> CurBlock.height]>>

\* C9: if the fee derivation of Connect(B, H) fails (a missing previous
\* output, a store read error or a failed fee-batch commit), the callback
\* receives the error, every first-phase write of B remains committed and
\* FeeIndex is as it was before the call.
C9_SecondPhaseFailureKeepsFirstPhase ==
  (fault # <<>> /\ fault[1] \in SecondPhaseFaults)
    => /\ cb = <<ErrorOf(fault[1])>>
       /\ call.op = "connect"
       /\ FirstPhaseCommitted
       /\ db.feeIndex = snap.feeIndex

\* A2 is connected out of order on top of G: two of its lookups find nothing.
C9_Witness ==
  /\ Idle
  /\ call.blockId = "A2"
  /\ Len(fault) >= 2
  /\ fault[1] = "missing"
  /\ snap.feeIndex # EmptyMap

----------------------------------------------------------------------------
(* Connect again.                                                          *)

RECURSIVE SumInputs(_, _)
SumInputs(d, ins) ==
  IF ins = <<>> THEN 0
  ELSE DbGet(d, "txoIndex", <<Head(ins).prevTxId, Head(ins).vout>>).value
         + SumInputs(d, Tail(ins))

\* The fee rates of the block's transactions over the store d.
RatesOver(d, block) ==
  [t \in 1..Len(block.transactions) |->
     IF IsCoinbaseTx(block.transactions[t]) THEN 0
     ELSE FeeRate(block.transactions[t], SumInputs(d, block.transactions[t].ins))]

\* The store after one successful Connect(b, h) on the store d.
SingleConnect(d, b, h) ==
  LET d1 == ApplyBatch(d, ConnectBatch(b, BlockOf(b), h))
  IN  ApplyBatch(d1, FeeBatch(BlockOf(b), RatesOver(d1, BlockOf(b))))

\* The call before was a connect of the same block, with the same height,
\* whose first phase committed; this call is a successful connect.
ConnectedAgain ==
  /\ Idle /\ Succeeded
  /\ call.op = "connect"
  /\ prev.call = call
  /\ \/ prev.cb = <<"ok">>
     \/ prev.fault # <<>> /\ prev.fault[1] \in SecondPhaseFaults

\* C10: Connect(B, H) run again for an already-connected block, whether the
\* earlier call succeeded or failed in its second phase, ends with all six
\* indices equal to the state one successful Connect(B, H) produces.
C10_ConnectIdempotent ==
  ConnectedAgain
    => /\ db = SingleConnect(prev.snap, call.blockId, call.height)
       /\ prev.cb = <<"ok">> => db = snap

\* A2's fee derivation failed on a read; the second Connect of A2 succeeded.
C10_Witness ==
  /\ ConnectedAgain
  /\ call.blockId = "A2"
  /\ prev.fault # <<>> /\ prev.fault[1] = "read"
  /\ 2 \in DOMAIN db.feeIndex

----------------------------------------------------------------------------
(* transactionIdsByScriptId.                                               *)

\* The query has returned a result and no lookup failed.
QueryDone == q.pc = "done" /\ q.err = <<>>

\* Over the store d: the creators of the outputs of script S from height H
\* on, and the spenders of those of them that have a SpentIndex entry.
CreatorsAndSpenders(d, S, H) ==
  LET outs == {k \in DOMAIN d.scIndex : k[1] = S /\ k[2] >= H}
  IN  {k[3] : k \in outs}
        \cup {d.spentIndex[<<k[3], k[4]>>].txId :
                k \in {o \in outs : <<o[3], o[4]>> \in DOMAIN d.spentIndex}}

\* C5: when no lookup fails, transactionIdsByScriptId(S, H) returns the set
\* of (a) the creating txId of every output txosByScriptId(S, H) returned and
\* (b) the spender txId of every such output whose lookup found a SpentIndex
\* entry, and no other id; with no commit during the query that is the set of
\* creators and spenders in the store.
C5_TransactionIdsUnion ==
  QueryDone
    => /\ DOMAIN q.txIds =
            {q.txosMap[x].txId : x \in DOMAIN q.txosMap}
              \cup {q.spentMap[x][1].txId :
                      x \in {y \in DOMAIN q.spentMap : q.spentMap[y] # <<>>}}
       /\ DOMAIN q.spentMap = DOMAIN q.txosMap
       /\ q.clean => DOMAIN q.txIds = CreatorsAndSpenders(q.db, q.scId, q.height)

\* Script 1 over G, A1, A2: transaction 2 both creates an output and spends
\* one, transaction 4 only spends one.
C5_Witness ==
  /\ QueryDone
  /\ q.clean
  /\ q.scId = 1 /\ q.height = 0
  /\ DOMAIN q.txIds = {1, 2, 3, 4, 5, 6}
  /\ Cardinality(DOMAIN q.txosMap) = 4

----------------------------------------------------------------------------
(* The tip after the first phase of connect.                               *)

\* Blockchain.prototype.tip: callback(err, tip && tip.blockId)
tip(d) == IF DbHas(d, "tip", TipKey) THEN <<DbGet(d, "tip", TipKey).blockId>> ELSE <<>>

\* The first-phase batch of the current connect is in the store.
FirstPhaseDone ==
  /\ call.op = "connect"
  /\ pc \notin {"connect:fetch", "connect:write"}
  /\ (fault = <<>> \/ fault[1] \in SecondPhaseFaults)

\* C11: after the first-phase commit of Connect(blockId, height) succeeds,
\* the Tip entry is {blockId, height} of the two arguments of the call, and
\* tip() returns that blockId; for every blockId and every height argument.
C11_TipIsArguments ==
  FirstPhaseDone
    => /\ Row(db, "tip", TipKey) = <<[blockId |-> call.blockId, height |-> call.height]>>
       /\ tip(db) = <<call.blockId>>

\* What the code writes: the height of the block fetched, whatever the argument.
C11_TipIsBlockHeight ==
  FirstPhaseDone
    => /\ Row(db, "tip", TipKey) = <<[blockId |-> call.blockId, height |-> CurBlock.height]>>
       /\ tip(db) = <<call.blockId>>

----------------------------------------------------------------------------
(* The fee-rate sample.                                                    *)

\* floor(a / b) for b > 0, by its definition: the r with r * b <= a < (r + 1) * b.
Floor(a, b) ==
  LET m == IF a < 0 THEN 0 - a ELSE a
  IN  CHOOSE r \in (0 - m - 1)..m : r * b <= a /\ a < (r + 1) * b

\* The value the sample is to hold for tx over the store d.
ExpectedRate(d, tx) ==
  IF \E vin \in DOMAIN tx.ins : tx.ins[vin].coinbase THEN 0
  ELSE Floor(SumInputs(d, tx.ins) - SumValues(tx.outs), tx.vsize)

Count(s, v) == Cardinality({i \in DOMAIN s : s[i] = v})

\* The fee derivation of the current connect has succeeded: every task has
\* called next without error.
DerivationSucceeded ==
  /\ call.op = "connect"
  /\ \/ pc = "connect:feewrite"
     \/ Idle /\ cb # <<>> /\ (fault = <<>> \/ fault = <<"feewrite">>)

\* C12: for every block whose fee derivation succeeds, the sample holds
\* exactly one value per transaction of the block: 0 for a transaction with
\* any coinbase input, and floor((sum of the TxoIndex values of its inputs'
\* previous outputs - sum of its output values) / vsize) for every other
\* transaction, negative results included.
C12_SamplePerTransaction ==
  DerivationSucceeded
    => LET txs  == CurBlock.transactions
           want == [t \in DOMAIN txs |-> ExpectedRate(db, txs[t])]
       IN  /\ Len(feeRates) = Len(txs)
           /\ \A v \in {want[t] : t \in DOMAIN txs} \cup {feeRates[i] : i \in DOMAIN feeRates} :
                Count(feeRates, v) = Count(want, v)

\* A2 on G, A1: a coinbase transaction that also spends an output (0), a
\* transaction paying out more than it takes in (floor(-5 / 2) = -3), and an
\* ordinary one (1).
C12_Witness ==
  /\ DerivationSucceeded
  /\ Idle /\ Succeeded
  /\ call.blockId = "A2"
  /\ Count(feeRates, 0) = 1 /\ Count(feeRates, 0 - 3) = 1 /\ Count(feeRates, 1) = 1

----------------------------------------------------------------------------
(* box over samples of every length.                                       *)

\* The longest sample drawn, and the fee rates it is drawn from.
MaxSample == 8
SampleValues == {0 - 3, 0, 1}

Samples == UNION {[1..n -> SampleValues] : n \in 0..MaxSample}

\* The callback of parallel(tasks) is about to run without error for block G,
\* with a sample of any length in any push order.
InitBox ==
  /\ db = EmptyDb
  /\ pc = "connect:sample"
  /\ call = [op |-> "connect", blockId |-> "G", height |-> BlockOf("G").height]
  /\ atomic = <<>>
  /\ feeRates \in Samples
  /\ inAccum = <<>>
  /\ taskLive = <<>>
  /\ outerLive = TRUE
  /\ pendingGets = {}
  /\ cb = <<>>
  /\ timers = <<>>
  /\ hdr = <<>>
  /\ emitted = <<>>
  /\ fault = <<>>
  /\ snap = EmptyDb
  /\ prev = [call |-> NoCall, cb |-> <<>>, fault |-> <<>>, snap |-> EmptyDb]
  /\ chain = <<"G">>
  /\ inOrder = TRUE
  /\ allOk = TRUE
  /\ calls = 1
  /\ q = NoQuery
  /\ fq = NoFees

\* parallel(tasks, (err) => { ... }) without err: the sample is sorted and
\* boxed into the fee batch, and the write is issued.
SampleDone ==
  /\ pc = "connect:sample"
  /\ outerLive
  /\ outerLive' = FALSE
  /\ atomic' = FeeBatch(CurBlock, feeRates)
  /\ pc' = "connect:feewrite"
  /\ UNCHANGED <<db, call, cb, feeRates, inAccum, taskLive, pendingGets,
                 notifyVars, ghostVars, q, fq>>

NextBox ==
  \/ SampleDone
  \/ FeeWriteErr
  \/ FeeWriteOk

SpecBox == InitBox /\ [][NextBox]_vars

\* S is the sample s in ascending order.
IsAscendingOf(S, s) ==
  /\ Len(S) = Len(s)
  /\ \A i \in 1..(Len(S) - 1) : S[i] <= S[i + 1]
  /\ \A v \in SampleValues : Count(S, v) = Count(s, v)

\* sample[i], counting from 0.
At(S, i) == S[i + 1]

FeeEntryWritten == Idle /\ Succeeded /\ call.op = "connect"

\* C13: the quartile summary written to FeeIndex is computed from the
\* ascending-sorted sample of length n as q1 = sample[floor(n/4)],
\* median = sample[floor(n/2)], q3 = sample[floor(n/2) + floor(n/4)] for every
\* n >= 1, with the three indices inside the sample and q1 <= median <= q3;
\* for n = 0 it is q1 = median = q3 = 0.
C13_QuartilesOfSortedSample ==
  FeeEntryWritten
    => LET n    == Len(feeRates)
           S    == SortAsc(feeRates)
           fees == DbGet(db, "feeIndex", CurBlock.height).fees
           iq1  == Floor(n, 4)
           imed == Floor(n, 2)
           iq3  == Floor(n, 2) + Floor(n, 4)
       IN  /\ IsAscendingOf(S, feeRates)
           /\ IF n = 0 THEN fees = [q1 |-> 0, median |-> 0, q3 |-> 0]
              ELSE /\ {iq1, imed, iq3} \subseteq 0..(n - 1)
                   /\ fees = [q1 |-> At(S, iq1), median |-> At(S, imed), q3 |-> At(S, iq3)]
                   /\ fees.q1 <= fees.median /\ fees.median <= fees.q3

\* A sample of eight pushed out of order: indices 2, 4 and 6 of the sorted
\* sample give three different quartiles.
C13_Witness ==
  /\ FeeEntryWritten
  /\ feeRates = <<1, 0, 0 - 3, 1, 0 - 3, 0, 1, 0 - 3>>
  /\ DbGet(db, "feeIndex", 0).fees = [q1 |-> 0 - 3, median |-> 0, q3 |-> 1]

----------------------------------------------------------------------------
(* fees, beside the calls.                                                 *)

\* With a fees query running beside the calls: the number of calls and of
\* queries, and the arguments n of the queries.
MaxCallsFees == 4
MaxFees == 1
FeesArgs == {0, 1}

\* A scan that starts one height lower.
FeesGteOneLower(maxHeight, n) == maxHeight - n - 1

\* A scan that starts at the tip height, whatever n.
FeesGteTip(maxHeight, n) == maxHeight

\* gte: { height: maxHeight - n }
FeesGte(maxHeight, n) == maxHeight - n

\* The FeeIndex heights the iterator visits, in key order; the range has no
\* upper end.
FeesVisits(d, maxHeight, n) ==
  SortAsc(SetToSeq({h \in DOMAIN d.feeIndex : h >= FeesGte(maxHeight, n)}))

\* fresult.push({ height, fees, size }) for each row visited.
FeesRows(d, visits) ==
  [i \in DOMAIN visits |->
     [height |-> visits[i],
      fees |-> DbGet(d, "feeIndex", visits[i]).fees,
      size |-> DbGet(d, "feeIndex", visits[i]).size]]

FeesCall(n) ==
  /\ fq.pc \in {"idle", "done", "thrown"}
  /\ fq.k < MaxFees
  /\ fq' = [NoFees EXCEPT !.pc = "tip", !.k = fq.k + 1, !.n = n]
  /\ UNCHANGED <<db, opVars, secondVars, notifyVars, ghostVars, q>>

\* db.get(types.tip, ...) fails: if (err) return callback(err)
FeesTipErr ==
  /\ fq.pc = "tip"
  /\ fq' = [fq EXCEPT !.pc = "done", !.err = <<"ReadError">>]
  /\ UNCHANGED <<db, opVars, secondVars, notifyVars, ghostVars, q>>

\* No tip row: result.height throws, and the callback is never called.
FeesTipAbsent ==
  /\ fq.pc = "tip"
  /\ ~HasTip
  /\ fq' = [fq EXCEPT !.pc = "thrown"]
  /\ UNCHANGED <<db, opVars, secondVars, notifyVars, ghostVars, q>>

\* let maxHeight = result.height, and the iterator is started.
FeesTipOk ==
  /\ fq.pc = "tip"
  /\ HasTip
  /\ fq' = [fq EXCEPT !.pc = "scan", !.maxHeight = Tip.height, !.atTip = db,
                      !.quiet = Idle, !.connected = ConnectedHeights]
  /\ UNCHANGED <<db, opVars, secondVars, notifyVars, ghostVars, q>>

\* The iterator ends: callback(err, fresult) without err.
FeesScanOk ==
  /\ fq.pc = "scan"
  /\ fq' = [fq EXCEPT !.pc = "done", !.atScan = db,
                      !.fresult = FeesRows(db, FeesVisits(db, fq.maxHeight, fq.n)),
                      !.quiet = fq.quiet /\ Idle /\ fq.atTip = db]
  /\ UNCHANGED <<db, opVars, secondVars, notifyVars, ghostVars, q>>

\* The iterator fails after m rows: callback(err, fresult) with err.
FeesScanErr(m) ==
  /\ fq.pc = "scan"
  /\ m \in 0..Len(FeesVisits(db, fq.maxHeight, fq.n))
  /\ fq' = [fq EXCEPT !.pc = "done", !.atScan = db, !.err = <<"ReadError">>,
                      !.fresult = SubSeq(FeesRows(db, FeesVisits(db, fq.maxHeight, fq.n)), 1, m),
                      !.quiet = FALSE]
  /\ UNCHANGED <<db, opVars, secondVars, notifyVars, ghostVars, q>>

FeesSteps ==
  \/ \E n \in FeesArgs : FeesCall(n)
  \/ FeesTipErr
  \/ FeesTipAbsent
  \/ FeesTipOk
  \/ FeesScanOk
  \/ \E m \in 0..Cardinality(DOMAIN db.feeIndex) : FeesScanErr(m)

\* Calls in chain order that all succeed, and fees queries at any moment.
NextFees ==
  \/ \E b \in BlockIds :
       calls < MaxCallsFees /\ ChainOrderConnect(b) /\ ConnectCall(b, BlockOf(b).height)
  \/ \E b \in BlockIds : calls < MaxCallsFees /\ ChainOrderDisconnect(b) /\ DisconnectCall(b)
  \/ StepsOk
  \/ FeesSteps

SpecFees == Init /\ [][NextFees]_vars

\* fees has called back without error.
FeesReturned == fq.pc = "done" /\ fq.err = <<>>

\* C14: when Tip is set, fees(n) returns, in ascending height order, exactly
\* the FeeIndex entries whose height is >= Tip.height - n, each as
\* {height, fees, size}, and nothing else.
C14_FeesFromTipMinusN ==
  FeesReturned
    => LET d    == fq.atScan
           T    == DbGet(fq.atTip, "tip", TipKey)
           r    == fq.fresult
           want == {h \in DOMAIN d.feeIndex : h >= T.height - fq.n}
       IN  /\ {r[i].height : i \in DOMAIN r} = want
           /\ \A i \in 1..(Len(r) - 1) : r[i].height < r[i + 1].height
           /\ \A i \in DOMAIN r :
                r[i] = [height |-> r[i].height,
                        fees |-> d.feeIndex[r[i].height].fees,
                        size |-> d.feeIndex[r[i].height].size]

\* G, A1 and A2 are connected, Tip.height is 2: fees(1) returns the entries of
\* heights 1 and 2 and leaves out that of height 0.
C14_Witness ==
  /\ FeesReturned
  /\ fq.n = 1
  /\ DOMAIN fq.atScan.feeIndex = {0, 1, 2}
  /\ Len(fq.fresult) = 2
  /\ fq.fresult[1] = [height |-> 1, fees |-> [q1 |-> 0, median |-> 1, q3 |-> 1], size |-> 20]
  /\ fq.fresult[2].height = 2

----------------------------------------------------------------------------
(* What disconnect leaves alone.                                           *)

\* C15: Disconnect(B) leaves FeeIndex unchanged (the entry for B's height is
\* still there with the same content after the commit) and emits no spent,
\* script, transaction or block notification: it sets no timer and makes no
\* header request.
C15_DisconnectKeepsFeeIndexSilent ==
  call.op = "disconnect"
    => /\ db.feeIndex = snap.feeIndex
       /\ timers = <<>> /\ hdr = <<>> /\ emitted = <<>>

\* A1 was connected with its fee entry and disconnected: the entry of height
\* 1 is as the connect wrote it.
C15_Witness ==
  /\ ConnectedThenDisconnected
  /\ call.blockId = "A1"
  /\ db # snap
  /\ Row(db, "feeIndex", 1) = <<[fees |-> [q1 |-> 0, median |-> 1, q3 |-> 1], size |-> 20]>>

----------------------------------------------------------------------------
(* The callback of connect.                                                *)

\* The FeeIndex row the current connect writes from its sample.
FeeRowOfSample == FeeBatch(CurBlock, feeRates)[1].val

\* C16: each Connect call invokes its callback exactly once: with success
\* only after the fee batch of the second phase has committed, or with the
\* first error that occurred; lookups that fail or complete after a failure
\* are discarded: the callback is not invoked again and no FeeIndex write is
\* made for that call.
C16_CallbackExactlyOnce ==
  call.op = "connect"
    => /\ Len(cb) <= 1
       /\ Idle => Len(cb) = 1
       /\ cb = <<"ok">>
            => /\ fault = <<>>
               /\ Idle
               /\ Row(db, "feeIndex", CurBlock.height) = <<FeeRowOfSample>>
       /\ fault # <<>>
            => /\ cb = <<ErrorOf(fault[1])>>
               /\ pc # "connect:feewrite"
               /\ atomic = <<>>
               /\ db.feeIndex = snap.feeIndex

\* The three lookups of A2 all returned after the first one failed on a read:
\* two more failures, or results, were discarded.
C16_Witness ==
  /\ Idle
  /\ call.op = "connect" /\ call.blockId = "A2"
  /\ Len(fault) >= 2
  /\ fault[1] = "read"
  /\ cb = <<"ReadError">>
  /\ snap.feeIndex # EmptyMap

----------------------------------------------------------------------------
(* The header request of the block notification.                           *)

\* A header request has been made, or a block notification emitted, for the
\* current call.
HeaderRequested == hdr # <<>> \/ \E i \in DOMAIN emitted : emitted[i][1] = "block"

\* C17: in every execution of Connect the header request for the block
\* notification is issued only after the first-phase batch has committed: no
\* header request and no block notification for a Connect whose first-phase
\* commit failed or has not yet completed.
C17_HeaderOnlyAfterCommit == HeaderRequested => FirstPhaseDone

\* What the code orders: the timer of the header request is set once the
\* block is fetched, before the write is issued.
C17_HeaderOnlyAfterFetch ==
  HeaderRequested
    => /\ call.op = "connect"
       /\ pc # "connect:fetch"
       /\ (fault = <<>> \/ fault[1] # "fetch")

----------------------------------------------------------------------------
(* Missing previous outputs.                                               *)

\* The number of calls, made in any order over the blocks with C1, none of
\* whose collaborators fails.
MaxCallsStray == 3

NextStray ==
  \/ \E b \in BlockIdsStray : calls < MaxCallsStray /\ ConnectCall(b, BlockOf(b).height)
  \/ \E b \in BlockIdsStray : calls < MaxCallsStray /\ DisconnectCall(b)
  \/ StepsOk

SpecStray == Init /\ [][NextStray]_vars

\* The inputs <<t, vin>> of the block's transactions without a coinbase input
\* whose previous output is not in TxoIndex.
AbsentInputs(d, block) ==
  {g \in UNION {{<<t, vin>> : vin \in DOMAIN block.transactions[t].ins} :
                  t \in DOMAIN block.transactions} :
     /\ \A vin \in DOMAIN block.transactions[g[1]].ins :
          ~block.transactions[g[1]].ins[vin].coinbase
     /\ <<block.transactions[g[1]].ins[g[2]].prevTxId,
          block.transactions[g[1]].ins[g[2]].vout>> \notin DOMAIN d.txoIndex}

\* Every input of the block's transactions without a coinbase input refers to
\* an output created by a block of the chain: an earlier one, or the block.
InputsFromChain(block) ==
  \A t \in DOMAIN block.transactions :
    (\A vin \in DOMAIN block.transactions[t].ins : ~block.transactions[t].ins[vin].coinbase)
      => \A vin \in DOMAIN block.transactions[t].ins :
           \E o \in ConnectedOutputs :
             /\ o[3] = block.transactions[t].ins[vin].prevTxId
             /\ o[4] = block.transactions[t].ins[vin].vout

FailedOnMissing == \E i \in DOMAIN fault : fault[i] = "missing"

\* C18: with store reads succeeding, the fee derivation of Connect(B) fails
\* with a missing-output error if and only if some input of a transaction of
\* B without a coinbase input refers to a (prevTxId, prevVout) absent from
\* TxoIndex after B's first-phase commit; so with the blocks connected in
\* chain order and every such input created by a still-connected earlier
\* block or by B itself, it never fails with a missing output.
C18_MissingOutputIffAbsent ==
  FirstPhaseDone
    => /\ FailedOnMissing => cb = <<"MissingOutputError">>
       /\ Idle => (cb = <<"MissingOutputError">> <=> AbsentInputs(db, CurBlock) # {})
       /\ (inOrder /\ InputsFromChain(CurBlock)) => ~FailedOnMissing

\* C1 was connected on G with success although the second input of its
\* coinbase transaction is in no index; A2 then failed on the outputs of A1.
C18_Witness ==
  /\ Idle
  /\ call.op = "connect" /\ call.blockId = "A2"
  /\ cb = <<"MissingOutputError">>
  /\ Cardinality(AbsentInputs(db, CurBlock)) = 2
  /\ prev.call.op = "connect" /\ prev.call.blockId = "C1" /\ prev.cb = <<"ok">>
  /\ ~DbHas(db, "txoIndex", <<20, 0>>)

----------------------------------------------------------------------------
(* The fee entry against the order of the lookups.                         *)

\* The FeeIndex row of the block over the store d, from the block and the
\* TxoIndex rows alone: no order of completion enters it.
FeeRowOf(d, block) ==
  [fees |-> box(SortAsc([t \in DOMAIN block.transactions |->
                           ExpectedRate(d, block.transactions[t])])),
   size |-> block.size]

\* C19: the FeeIndex[height] content written by a successful Connect is the
\* same for every order in which the per-transaction tasks and the per-input
\* lookups complete: no interleaving of the lookup callbacks changes the
\* quartiles or the block size stored.
C19_FeeEntryOrderIndependent ==
  (call.op = "connect" /\ Idle /\ Succeeded)
    => Row(db, "feeIndex", CurBlock.height) = <<FeeRowOf(db, CurBlock)>>

\* A2: the lookup of transaction 5 returned before those of transaction 4, so
\* the sample was pushed as 0, 1, -3; the entry is that of -3, 0, 1.
C19_Witness ==
  /\ call.op = "connect" /\ call.blockId = "A2"
  /\ Idle /\ Succeeded
  /\ feeRates = <<0, 1, 0 - 3>>
  /\ Row(db, "feeIndex", 2) = <<[fees |-> [q1 |-> 0 - 3, median |-> 0, q3 |-> 0], size |-> 30]>>

----------------------------------------------------------------------------
(* fees against the connected chain.                                       *)

\* fees(n) with n >= 0 has returned; no call was in flight and no commit
\* landed while it read.
FeesReturnedQuiet == FeesReturned /\ fq.quiet /\ fq.n >= 0

\* The rows are within the tip, of connected blocks, and at most n + 1.
FeesRowsWithinTip ==
  /\ \A i \in DOMAIN fq.fresult :
       /\ fq.fresult[i].height <= fq.maxHeight
       /\ fq.fresult[i].height \in fq.connected
  /\ Len(fq.fresult) <= fq.n + 1

\* C20: after any sequence of successful Connect and Disconnect calls made in
\* chain order, every entry fees(n) returns has a height no greater than the
\* height stored in Tip and belongs to a connected block, so fees(n) with
\* n >= 0 returns at most n + 1 entries.
C20_FeesWithinTip == FeesReturnedQuiet => FeesRowsWithinTip

\* C20, amended: so it is when FeeIndex holds no entry left by a disconnected
\* block; the entry of a disconnected height stays and fees returns it.
C20_FeesWithinTipNoneLeft ==
  (FeesReturnedQuiet /\ DOMAIN fq.atScan.feeIndex \subseteq fq.connected)
    => FeesRowsWithinTip

\* A1 was disconnected and B1 connected at its height: fees(0) returns the
\* one entry of height 1, B1's, and not that of height 0.
C20_Witness ==
  /\ FeesReturnedQuiet
  /\ fq.n = 0
  /\ fq.connected = {0, 1}
  /\ DOMAIN fq.atScan.feeIndex = {0, 1}
  /\ Len(fq.fresult) = 1
  /\ fq.fresult[1].height = 1 /\ fq.fresult[1].size = 25
  /\ prev.call.op = "disconnect" /\ prev.call.blockId = "A1"
  /\ call.op = "connect" /\ call.blockId = "B1"

====
